---- MODULE Spec2Model ----
(***************************************************************************)
(* Verification model of bedrock/newsletter/views.py: the request handlers *)
(* confirm, existing, updated, one_newsletter_signup and recovery, the     *)
(* token shape check UUID_REGEX, and the calls the handlers make to the    *)
(* remote subscription service (basket).                                   *)
(*                                                                         *)
(* One handler runs per request.  A handler action takes the request and   *)
(* the outcome of every remote call it makes as inputs, and leaves in the  *)
(* state the calls it made (in order), its response, the flash messages it *)
(* added and the log entries it wrote.  Respond ends the request.          *)
(***************************************************************************)
EXTENDS Integers, Sequences, FiniteSets, TLC

VARIABLES
    basket_user,   \* the user record held by the remote service
    fetched_user,  \* the record basket.user returned to the handler, if any
    phase,         \* "idle" between requests, "handled" once a handler returned
    view,          \* the handler that served the current request
    request,       \* the request it was given
    calls,         \* remote calls made while serving it, in order
    response,      \* what the handler returned (or the exception it let through)
    messages,      \* flash messages added with messages.add_message, in order
    log,           \* log.exception entries, in order
    newsletter_data,  \* the catalog utils.get_newsletters() gave the handler
    initial        \* the list `initial` of existing() when it returned or raised

vars ==
    <<basket_user, fetched_user, phase, view, request, calls, response, messages,
      log, newsletter_data, initial>>

(***************************************************************************)
(* Bounds and sample inputs                                                *)
(***************************************************************************)
\* number of newsletters known to the catalog and to the remote service
NumNewsletters == 2

AllNewsletterIds == <<"mozilla-and-you", "firefox-tips", "mobile", "about-mozilla">>

NewsletterIds == {AllNewsletterIds[i] : i \in 1..NumNewsletters}

Langs == {"en", "fr"}

Formats == {"H", "T"}

Countries == {"us", "fr"}

Methods == {"GET", "POST"}

UserEmail == "user@example.com"

\* A token is a string, modelled as the sequence of its characters.
\* The empty sequence stands for an absent token (None or '').
NoToken == <<>>

TokenA == <<"f","8","1","d","4","f","a","e","-","7","d","e","c","-","1","1","d","0","-","a","7","6","5","-","0","0","a","0","c","9","1","e","6","b","f","6">>

TokenUpper == <<"F","8","1","D","4","F","A","E","-","7","D","E","C","-","1","1","D","0","-","A","7","6","5","-","0","0","A","0","C","9","1","E","6","B","F","6">>

TokenShort == <<"n","o","t","-","a","-","u","u","i","d">>

TokenNewline == TokenA \o <<"\n">>

TokenTrailing == TokenA \o <<"x">>

TokenLeading == <<"x">> \o TokenA

TokenBadDigit == [TokenA EXCEPT ![1] = "g"]

TokenBadHyphen == [TokenA EXCEPT ![9] = "0"]

Tokens == {NoToken, TokenA, TokenUpper, TokenShort, TokenNewline,
           TokenTrailing, TokenLeading, TokenBadDigit, TokenBadHyphen}

\* the token the remote service knows
KnownToken == TokenA

(***************************************************************************)
(* Module constants of views.py                                            *)
(***************************************************************************)
UNSUB_UNSUBSCRIBED_ALL == 1

UNSUB_REASONS_SUBMITTED == 2

general_error == "general_error"

thank_you == "thank_you"

bad_token == "bad_token"

recovery_text == "recovery_text"

unknown_address_text == "unknown_address_text"

REASONS == <<"You send too many emails.",
             "Your content wasn't relevant to me.",
             "Your email design was too hard to read.",
             "I didn't sign up for this.",
             "I'm keeping in touch with Mozilla on Facebook and Twitter instead.">>

(***************************************************************************)
(* UUID_REGEX: ^[0-9a-f]{8}-[0-9a-f]{4}-[0-9a-f]{4}-[0-9a-f]{4}-[0-9a-f]{12}$  *)
(* compiled with re.IGNORECASE and applied with .match().                  *)
(***************************************************************************)
HexDigits == {"0","1","2","3","4","5","6","7","8","9",
              "a","b","c","d","e","f","A","B","C","D","E","F"}

HyphenPositions == {9, 14, 19, 24}

\* the body of the pattern, between ^ and $
UUID_BODY_match(s) ==
    /\ Len(s) = 36
    /\ \A i \in 1..36 : IF i \in HyphenPositions THEN s[i] = "-"
                                                 ELSE s[i] \in HexDigits

\* $ (without re.MULTILINE) matches at the end of the string and also just
\* before a newline that is the last character of the string
UUID_REGEX_match(token) ==
    \/ UUID_BODY_match(token)
    \/ /\ Len(token) = 37
       /\ token[37] = "\n"
       /\ UUID_BODY_match(SubSeq(token, 1, 36))

\* Python truthiness of a token: None and '' are false
Truthy(token) == Len(token) > 0

(***************************************************************************)
(* Remote calls and their outcomes                                         *)
(***************************************************************************)
Returned(status) == [exc |-> "None", status_code |-> 0, status |-> status]

Raised(cls, code) == [exc |-> cls, status_code |-> code, status |-> ""]

\* basket.BasketNetworkException is a subclass of basket.BasketException
IsBasketNetworkException(outcome) == outcome.exc = "BasketNetworkException"

IsBasketException(outcome) ==
    outcome.exc \in {"BasketException", "BasketNetworkException"}

StatusCodes == {0, 400, 403, 404, 500}

Failures == {Raised("BasketException", c) : c \in StatusCodes}
            \cup {Raised("BasketNetworkException", 0)}

Call(name, args, outcome) == [name |-> name, args |-> args, outcome |-> outcome]

(***************************************************************************)
(* What a handler leaves behind                                            *)
(***************************************************************************)
Result(cs, rsp, msgs, lg) ==
    [calls |-> cs, response |-> rsp, messages |-> msgs, log |-> lg]

Message(level, text) == [level |-> level, text |-> text]

NoQuery == [k \in {} |-> ""]

\* reverse(name) gives the URL of a named view; the name stands for the URL
reverse(name) == name

redirect(path, query) == [kind |-> "redirect", to |-> path, query |-> query]

render(template, context) ==
    [kind |-> "render", template |-> template, context |-> context]

\* an exception the handler does not catch
propagate(outcome) == [kind |-> "exception", exc |-> outcome.exc]

NoContext == [k \in {} |-> ""]

(***************************************************************************)
(* confirm(request, token)                                                 *)
(***************************************************************************)
confirm_flags_mut_403_generic(outcome) ==
    IF IsBasketException(outcome)
    THEN [success |-> FALSE, generic_error |-> TRUE, token_error |-> FALSE]
    ELSE [success |-> outcome.status = "ok",
          generic_error |-> outcome.status # "ok",
          token_error |-> FALSE]

\* lines 70-88: the three flags from the outcome of basket.confirm
confirm_flags(outcome) ==
    IF IsBasketException(outcome)
    THEN IF outcome.status_code = 403
         THEN [success |-> FALSE, generic_error |-> FALSE, token_error |-> TRUE]
         ELSE [success |-> FALSE, generic_error |-> TRUE, token_error |-> FALSE]
    ELSE IF outcome.status = "ok"
         THEN [success |-> TRUE, generic_error |-> FALSE, token_error |-> FALSE]
         ELSE [success |-> FALSE, generic_error |-> TRUE, token_error |-> FALSE]

confirm(token, outcome) ==
    Result(<<Call("confirm", <<token>>, outcome)>>,
           render("newsletter/confirm.html", confirm_flags(outcome)),
           <<>>,
           IF IsBasketException(outcome)
           THEN <<"Exception confirming token">> ELSE <<>>)

ConfirmOutcomes == Failures \cup {Returned("ok"), Returned("error")}

(***************************************************************************)
(* The remote service's user record (basket.user returns a snapshot of it) *)
(***************************************************************************)
InitialUser ==
    [email |-> UserEmail, lang |-> "en", format |-> "H",
     country |-> "us", newsletters |-> {AllNewsletterIds[1]}]

\* the orders in which iterating over the set S can yield its elements
Orders(S) ==
    {o \in [1..Cardinality(S) -> S] : \A i, j \in DOMAIN o : i # j => o[i] # o[j]}

RECURSIVE join(_, _)
\* sep.join(items)
join(sep, items) ==
    IF Len(items) = 0 THEN ""
    ELSE IF Len(items) = 1 THEN items[1]
    ELSE items[1] \o sep \o join(sep, Tail(items))

(***************************************************************************)
(* Forms of the manage-subscriptions page.  request.POST carries the       *)
(* submitted field values together with the verdict of the form classes    *)
(* on them (form_ok, formset_ok).                                          *)
(***************************************************************************)
ExistingPosts ==
    [form_ok : BOOLEAN, lang : Langs, format : Formats, country : Countries,
     remove_all : BOOLEAN, formset_ok : BOOLEAN,
     subforms : [NewsletterIds -> BOOLEAN]]

\* the same POST data is given to each ManageSubscriptionsForm built in a request
ManageSubscriptionsForm_is_valid(POST) == POST.form_ok

ManageSubscriptionsForm_cleaned_data(POST) ==
    [lang |-> POST.lang, format |-> POST.format, country |-> POST.country,
     remove_all |-> POST.remove_all]

NewsletterFormSet_is_valid(POST) == POST.formset_ok

checked_newsletters_mut_every_subform(POST) == DOMAIN POST.subforms

\* lines 212-214: the newsletters whose sub-form has 'subscribed' checked
checked_newsletters(POST) == {n \in DOMAIN POST.subforms : POST.subforms[n]}

(***************************************************************************)
(* existing(request, token)                                                *)
(***************************************************************************)
update_kwargs_mut_all_fields(user, data, remove_all, newsletters) ==
    LET keys == {"lang", "format", "country"}
                \cup (IF ~remove_all THEN {"newsletters"} ELSE {})
    IN  [k \in keys |-> IF k = "newsletters" THEN newsletters ELSE data[k]]

update_kwargs_mut_skip_on_remove_all(user, data, remove_all, newsletters) ==
    LET changed == {k \in {"lang", "format", "country"} : user[k] # data[k]}
        keys == IF remove_all THEN {} ELSE changed \cup {"newsletters"}
    IN  [k \in keys |-> IF k = "newsletters" THEN newsletters ELSE data[k]]

update_kwargs_mut_newsletters_if_changed(user, data, remove_all, newsletters) ==
    LET changed == {k \in {"lang", "format", "country"} : user[k] # data[k]}
        keys == changed \cup (IF ~remove_all /\ changed # {}
                              THEN {"newsletters"} ELSE {})
    IN  [k \in keys |-> IF k = "newsletters" THEN newsletters ELSE data[k]]

\* lines 227-232: the keyword arguments for basket.update_user;
\* newsletters is the comma-joined string of line 232
update_kwargs(user, data, remove_all, newsletters) ==
    LET changed == {k \in {"lang", "format", "country"} : user[k] # data[k]}
        keys == changed \cup (IF ~remove_all THEN {"newsletters"} ELSE {})
    IN  [k \in keys |-> IF k = "newsletters" THEN newsletters ELSE data[k]]

\* lines 275-297: the page with the forms (also the fall-through of a POST
\* that failed validation).  Of the context, the user's email and
\* subscriptions are kept; the formset is built from the list `initial` of
\* lines 157-185, which the handler's result carries beside the response.
existing_page(user) ==
    render("newsletter/existing.html",
           [email |-> user.email, newsletters_subscribed |-> user.newsletters])

unsubscribe_caught_mut_never(outcome) == FALSE

unsubscribe_caught_mut_timeout_only(outcome) == outcome.exc = "requests.Timeout"

\* line 248: except (basket.BasketException, requests.Timeout)
unsubscribe_caught(outcome) ==
    IsBasketException(outcome) \/ outcome.exc = "requests.Timeout"

\* lines 233-266: the remote writes of a validated POST and the redirect
existing_process(token, user, data, remove_all, newsletters, env, done) ==
    LET kwargs == update_kwargs(user, data, remove_all, newsletters)
        c_update == Call("update_user", <<token, kwargs>>, env.update_user)
        after_update == IF DOMAIN kwargs # {} THEN Append(done, c_update) ELSE done
        c_unsub == Call("unsubscribe",
                        <<token, user.email, [optout |-> TRUE]>>, env.unsubscribe)
    IN  IF DOMAIN kwargs # {} /\ IsBasketException(env.update_user)
        THEN Result(after_update,
                    render("newsletter/existing.html", NoContext),
                    <<Message("ERROR", general_error)>>,
                    <<"Error updating user in basket">>)
        ELSE IF remove_all
        THEN IF unsubscribe_caught(env.unsubscribe)
             THEN Result(Append(after_update, c_unsub),
                         render("newsletter/existing.html", NoContext),
                         <<Message("ERROR", general_error)>>,
                         <<"Error updating subscriptions in basket">>)
             ELSE Result(Append(after_update, c_unsub),
                         redirect(reverse("newsletter.updated"),
                                  [unsub |-> UNSUB_UNSUBSCRIBED_ALL, token |-> token]),
                         <<>>, <<>>)
        ELSE \* unsub_parm is None on this path: no query string
             Result(after_update, redirect(reverse("newsletter.updated"), NoQuery),
                    <<>>, <<>>)

formset_is_valid_mut_not_validated(POST, remove_all) == TRUE

\* lines 196-210: the formset is validated only when remove_all is not set
formset_is_valid(POST, remove_all) ==
    remove_all \/ NewsletterFormSet_is_valid(POST)

\* lines 187-273: the request once the user record has been fetched
existing_with_user(req, token, user, env, done) ==
    IF req.method = "POST"
    THEN LET POST == req.POST
             remove_all == /\ ManageSubscriptionsForm_is_valid(POST)
                           /\ ManageSubscriptionsForm_cleaned_data(POST).remove_all
             newsletters == join(",", env.order)
         IN  IF /\ formset_is_valid(POST, remove_all)
                /\ ManageSubscriptionsForm_is_valid(POST)
             THEN existing_process(token, user,
                                   ManageSubscriptionsForm_cleaned_data(POST),
                                   remove_all, newsletters, env, done)
             ELSE Result(done, existing_page(user), <<>>, <<>>)
    ELSE Result(done, existing_page(user), <<>>, <<>>)

\* lines 114-121: the checks made on the token before anything else
token_gate(token) ==
    IF ~Truthy(token) THEN "absent"
    ELSE IF ~UUID_REGEX_match(token) THEN "bad"
    ELSE "ok"

user_fetch_mut_rejected_exists(outcome) ==
    IF IsBasketNetworkException(outcome) THEN "timeout" ELSE "exists"

user_fetch_mut_timeout_as_missing(outcome) ==
    IF IsBasketException(outcome) THEN "missing" ELSE "exists"

\* lines 136-149: what the outcome of basket.user means for the handler
user_fetch(outcome) ==
    IF IsBasketNetworkException(outcome) THEN "timeout"
    ELSE IF IsBasketException(outcome) THEN "missing"
    ELSE "exists"

(***************************************************************************)
(* The list of newsletters the manage-subscriptions page shows.  The       *)
(* catalog (newsletter_data) maps a newsletter id to a dict with the keys  *)
(* title, description and languages and, optionally, show and order.       *)
(***************************************************************************)
\* _(text): the catalog texts are shown in the locale of the request; for
\* en-US the message id is the text
gettext(text) == text

\* the sample titles in the order Python gives unicode strings (code points:
\* "&" < "W" < "f")
TitlesAscending ==
    <<"About Mozilla", "Firefox & You", "Firefox Weekly Tips",
      "Firefox for Android">>

\* a < b on the sample titles
str_lt(a, b) ==
    \E i, j \in DOMAIN TitlesAscending :
        TitlesAscending[i] = a /\ TitlesAscending[j] = b /\ i < j

\* lang.startswith('en') on the sample language codes
startswith_en(lang) == lang \in {"en", "en-US", "en-GB"}

\* lines 167-176: the dict of one shown newsletter; it has the key 'order'
\* when the catalog entry has it
form_data(newsletter, data, user) ==
    [k \in {"title", "subscribed", "newsletter", "description", "english_only"}
           \cup (DOMAIN data \cap {"order"}) |->
        CASE k = "title" -> gettext(data.title)
          [] k = "subscribed" -> newsletter \in user.newsletters
          [] k = "newsletter" -> newsletter
          [] k = "description" -> gettext(data.description)
          [] k = "english_only" -> /\ Len(data.languages) = 1
                                   /\ startswith_en(data.languages[1])
          [] k = "order" -> data.order]

shown_mut_show_only(newsletter, data, user) ==
    IF "show" \in DOMAIN data THEN data.show ELSE FALSE

\* line 166: data.get('show', False) or newsletter in user['newsletters']
shown(newsletter, data, user) ==
    \/ IF "show" \in DOMAIN data THEN data.show ELSE FALSE
    \/ newsletter \in user.newsletters

RECURSIVE display_list(_, _, _)
\* lines 164-177: the list `initial` built from the catalog newsletter_data;
\* `iteritems` is the order in which that dict yields its keys
display_list(catalog, iteritems, user) ==
    IF iteritems = <<>> THEN <<>>
    ELSE LET newsletter == Head(iteritems)
             data == catalog[newsletter]
         IN  (IF shown(newsletter, data, user)
              THEN <<form_data(newsletter, data, user)>> ELSE <<>>)
             \o display_list(catalog, Tail(iteritems), user)

\* line 181, for a list that is not empty
sort_keyfield(items) ==
    IF "order" \in DOMAIN items[1] THEN "order" ELSE "title"

\* itemgetter(keyfield) raises KeyError on a dict without the key
sort_raises_KeyError(items, keyfield) ==
    \E i \in DOMAIN items : keyfield \notin DOMAIN items[i]

\* a < b for the sort keys of two items
key_lt(keyfield, a, b) ==
    IF keyfield = "order" THEN a.order < b.order ELSE str_lt(a.title, b.title)

RECURSIVE insert_sorted(_, _, _)
\* x goes behind the items whose key is not greater than its own
insert_sorted(sorted, x, keyfield) ==
    IF sorted = <<>> THEN <<x>>
    ELSE IF key_lt(keyfield, x, Head(sorted)) THEN <<x>> \o sorted
    ELSE <<Head(sorted)>> \o insert_sorted(Tail(sorted), x, keyfield)

RECURSIVE sort_from(_, _, _)
sort_from(sorted, items, keyfield) ==
    IF items = <<>> THEN sorted
    ELSE sort_from(insert_sorted(sorted, Head(items), keyfield), Tail(items),
                   keyfield)

\* list.sort(key=itemgetter(keyfield)): ascending and stable
sort(items, keyfield) == sort_from(<<>>, items, keyfield)

\* the result of existing(), with the catalog it read and the list it built
WithInitial(r, catalog, items) ==
    [calls |-> r.calls, response |-> r.response, messages |-> r.messages,
     log |-> r.log, newsletter_data |-> catalog, initial |-> items]

\* env.user is the outcome of basket.user and env.user_record the record it
\* returns; env.order is the order in which the set of checked newsletters is
\* iterated by ",".join; env.update_user and env.unsubscribe are the outcomes
\* of the writes; env.newsletter_data is the catalog utils.get_newsletters()
\* returns and env.iteritems the order in which it is iterated
existing(req, token, env) ==
    LET gate == token_gate(token)
        c_user == Call("user", <<token>>, env.user)
        fetched == user_fetch(env.user)
    IN  IF gate = "absent"
        THEN Result(<<>>, redirect(reverse("newsletter.recovery"), NoQuery),
                    <<>>, <<>>)
        ELSE IF gate = "bad"
        THEN Result(<<>>, redirect(reverse("newsletter.recovery"), NoQuery),
                    <<Message("ERROR", bad_token)>>, <<>>)
        ELSE IF fetched = "timeout"
        THEN Result(<<c_user>>, render("newsletter/existing.html", NoContext),
                    <<Message("ERROR", general_error)>>, <<"Basket timeout">>)
        ELSE IF fetched = "missing"
        THEN Result(<<c_user>>, redirect(reverse("newsletter.recovery"), NoQuery),
                    <<Message("ERROR", bad_token)>>,
                    <<"FAILED to get user from token">>)
        ELSE LET built == display_list(env.newsletter_data, env.iteritems,
                                       env.user_record)
             IN  IF /\ built # <<>>
                    /\ sort_raises_KeyError(built, sort_keyfield(built))
                 THEN \* line 182: the KeyError is not caught
                      WithInitial(Result(<<c_user>>,
                                         propagate([exc |-> "KeyError"]),
                                         <<>>, <<>>),
                                  env.newsletter_data, built)
                 ELSE WithInitial(existing_with_user(req, token, env.user_record,
                                                     env, <<c_user>>),
                                  env.newsletter_data,
                                  IF built = <<>> THEN built
                                  ELSE sort(built, sort_keyfield(built)))

(***************************************************************************)
(* updated(request)                                                        *)
(***************************************************************************)
\* dict.get(key, default)
get(d, key, default) == IF key \in DOMAIN d THEN d[key] ELSE default

\* int() on the strings the 'unsub' parameter is drawn from
int_raises_ValueError(str) == str \notin {"0", "1", "2", "02", "3"}

int(str) ==
    CASE str = "0" -> 0
      [] str = "1" -> 1
      [] str = "2" -> 2
      [] str = "02" -> 2
      [] str = "3" -> 3

\* 'reason%d' % i, for i in 0..4
reason_key(i) == <<"reason0", "reason1", "reason2", "reason3", "reason4">>[i + 1]

RECURSIVE selected_reasons(_, _)
\* lines 349-351: the texts of the checked reasons, from index i on, in the
\* order of REASONS
selected_reasons(REQUEST, i) ==
    IF i >= Len(REASONS) THEN <<>>
    ELSE (IF reason_key(i) \in DOMAIN REQUEST THEN <<REASONS[i + 1]>> ELSE <<>>)
         \o selected_reasons(REQUEST, i + 1)

reason_text_mut_items_only(REQUEST) ==
    LET free == IF "reason-text" \in DOMAIN REQUEST /\ REQUEST["reason-text"] # ""
                THEN <<REQUEST["reason-text"]>> ELSE <<>>
        reasons == selected_reasons(REQUEST, 0) \o free
    IN  IF Len(reasons) = 0 THEN "" ELSE join("\n\n", reasons) \o "\n\n"

\* lines 344-355: the text sent to the remote service
reason_text(REQUEST) ==
    LET free == IF "reason-text-p" \in DOMAIN REQUEST
                THEN <<get(REQUEST, "reason-text", "")>> ELSE <<>>
        reasons == selected_reasons(REQUEST, 0) \o free
    IN  join("\n\n", reasons) \o "\n\n"

\* lines 324-328
unsub_of(REQUEST) ==
    LET unsub == get(REQUEST, "unsub", "0")
    IN  IF int_raises_ValueError(unsub) THEN 0 ELSE int(unsub)

sends_reasons_mut_any_method(req) ==
    /\ unsub_of(req.REQUEST) = UNSUB_REASONS_SUBMITTED
    /\ Truthy(get(req.REQUEST, "token", NoToken))

\* line 342: request.method == 'POST' and reasons_submitted and token
sends_reasons(req) ==
    /\ req.method = "POST"
    /\ unsub_of(req.REQUEST) = UNSUB_REASONS_SUBMITTED
    /\ Truthy(get(req.REQUEST, "token", NoToken))

\* outcome is that of utils.custom_unsub_reason, which the handler calls
\* outside any try block
updated(req, outcome) ==
    LET unsub == unsub_of(req.REQUEST)
        token == get(req.REQUEST, "token", NoToken)
        msgs == IF unsub = 0 THEN <<Message("INFO", thank_you)>> ELSE <<>>
        c_reason == Call("custom_unsub_reason",
                         <<token, reason_text(req.REQUEST)>>, outcome)
        context == [unsubscribed_all |-> unsub = UNSUB_UNSUBSCRIBED_ALL,
                    reasons_submitted |-> unsub = UNSUB_REASONS_SUBMITTED,
                    token |-> token]
    IN  IF sends_reasons(req)
        THEN IF outcome.exc # "None"
             THEN Result(<<c_reason>>, propagate(outcome), msgs, <<>>)
             ELSE Result(<<c_reason>>, render("newsletter/updated.html", context),
                         msgs, <<>>)
        ELSE Result(<<>>, render("newsletter/updated.html", context), msgs, <<>>)

(***************************************************************************)
(* one_newsletter_signup(request, template_name)                           *)
(***************************************************************************)
\* lines 379-386: format always, the optional fields when they are not empty
subscribe_kwargs(data) ==
    LET optional == {k \in {"country", "lang", "source_url"} : data[k] # ""}
    IN  [k \in {"format"} \cup optional |->
            IF k = "format" THEN data.fmt ELSE data[k]]

NewsletterFooterForm_is_valid_mut_any_post(req) == req.method = "POST"

\* NewsletterFooterForm(request.locale, request.POST or None): without POST
\* data the form is unbound and is_valid() is False
NewsletterFooterForm_is_valid(req) == req.method = "POST" /\ req.POST.form_ok

one_newsletter_signup(req, template_name, outcome) ==
    LET data == req.POST
        c_subscribe == Call("subscribe",
                            <<data.email, data.newsletter, subscribe_kwargs(data)>>,
                            outcome)
    IN  IF NewsletterFooterForm_is_valid(req)
        THEN IF IsBasketException(outcome)
             THEN Result(<<c_subscribe>>,
                         render(template_name,
                                [newsletter_success |-> FALSE,
                                 form_errors |-> {[field |-> "__all__",
                                                  text |-> general_error]}]),
                         <<>>, <<"Error subscribing to newsletter">>)
             ELSE Result(<<c_subscribe>>,
                         render(template_name,
                                [newsletter_success |-> TRUE, form_errors |-> {}]),
                         <<>>, <<>>)
        ELSE Result(<<>>,
                    render(template_name,
                           [newsletter_success |-> FALSE, form_errors |-> {}]),
                    <<>>, <<>>)

(***************************************************************************)
(* recovery(request)                                                       *)
(***************************************************************************)
EmailForm_is_valid(POST) == POST.form_ok

FormError(field, text, link) == [field |-> field, text |-> text, link |-> link]

recovery_errors_mut_404_generic(outcome) ==
    {FormError("__all__", general_error, "")}

\* lines 419-430: the form error attached when send_recovery_message raises
recovery_errors(outcome) ==
    IF outcome.status_code = 404
    THEN {FormError("email", unknown_address_text,
                    reverse("newsletter.mozilla-and-you"))}
    ELSE {FormError("__all__", general_error, "")}

recovery_log_mut_always(outcome) == <<"Error sending recovery message">>

\* lines 419-426: only the else branch of the status test logs
recovery_log(outcome) ==
    IF outcome.status_code = 404 THEN <<>>
    ELSE <<"Error sending recovery message">>

recovery(req, outcome) ==
    LET c_send == Call("send_recovery_message", <<req.POST.email>>, outcome)
        page(form) == render("newsletter/recovery.html", form)
    IN  IF req.method = "POST"
        THEN IF EmailForm_is_valid(req.POST)
             THEN IF IsBasketException(outcome)
                  THEN Result(<<c_send>>,
                              page([form |-> "EmailForm",
                                    errors |-> recovery_errors(outcome)]),
                              <<>>, recovery_log(outcome))
                  ELSE Result(<<c_send>>,
                              redirect(req.path, [success |-> ""]),
                              <<Message("INFO", recovery_text)>>, <<>>)
             ELSE Result(<<>>, page([form |-> "EmailForm", errors |-> {}]),
                         <<>>, <<>>)
        ELSE IF "success" \in DOMAIN req.GET
        THEN Result(<<>>, page([form |-> "None", errors |-> {}]), <<>>, <<>>)
        ELSE Result(<<>>, page([form |-> "EmailForm", errors |-> {}]), <<>>, <<>>)

(***************************************************************************)
(* The remote service: what a successful write does to the user record     *)
(***************************************************************************)
\* the set a comma-joined list of newsletter ids denotes
split_newsletters(str) ==
    CHOOSE S \in SUBSET NewsletterIds : \E o \in Orders(S) : join(",", o) = str

basket_apply(user, call) ==
    IF call.outcome.exc # "None" THEN user
    ELSE IF call.name = "update_user"
    THEN LET kwargs == call.args[2]
         IN  [k \in DOMAIN user |->
                 IF k \in DOMAIN kwargs
                 THEN IF k = "newsletters" THEN split_newsletters(kwargs[k])
                      ELSE kwargs[k]
                 ELSE user[k]]
    ELSE IF call.name = "unsubscribe"
    THEN [user EXCEPT !.newsletters = {}]
    ELSE user

RECURSIVE basket_after(_, _)
basket_after(user, cs) ==
    IF Len(cs) = 0 THEN user
    ELSE basket_after(basket_apply(user, cs[1]), Tail(cs))

(***************************************************************************)
(* Requests and remote outcomes the handlers are run on                    *)
(***************************************************************************)
NotCalled == Returned("not called")

NoPost == [k \in {} |-> ""]

NoRequest == [method |-> "none"]

NoUser == [email |-> ""]

\* whether basket.user returned a record among the calls cs
Fetched(cs) ==
    \E i \in DOMAIN cs : cs[i].name = "user" /\ cs[i].outcome.exc = "None"

WriteOutcomes ==
    {Returned("ok"), Raised("BasketException", 500),
     Raised("BasketNetworkException", 0)}

\* basket.unsubscribe can also fail with the timeout of the requests library
UnsubscribeOutcomes == WriteOutcomes \cup {Raised("requests.Timeout", 0)}

UserFailures ==
    {Raised("BasketException", 403), Raised("BasketNetworkException", 0)}

\* basket.user succeeds only for the token the service knows
UserOutcomes(token) ==
    IF token = KnownToken THEN {Returned("ok")} \cup UserFailures ELSE UserFailures

SamplePosts ==
    {p \in ExistingPosts :
        /\ p.form_ok /\ p.formset_ok
        /\ p.lang = "fr" /\ p.format = "H" /\ p.country = "us"
        /\ \A n \in NewsletterIds : p.subforms[n]}

\* every POST for the token the service knows, two sample POSTs for the others
ExistingRequests(token) ==
    {[method |-> "GET", token |-> token, POST |-> NoPost]}
    \cup {[method |-> "POST", token |-> token, POST |-> p] :
             p \in IF token = KnownToken THEN ExistingPosts ELSE SamplePosts}

CallNames(r) == {r.calls[i].name : i \in DOMAIN r.calls}

\* the texts and languages of the catalog entries, by newsletter id
Titles ==
    [n \in {AllNewsletterIds[i] : i \in 1..4} |->
        CASE n = AllNewsletterIds[1] -> "Firefox & You"
          [] n = AllNewsletterIds[2] -> "Firefox Weekly Tips"
          [] n = AllNewsletterIds[3] -> "Firefox for Android"
          [] n = AllNewsletterIds[4] -> "About Mozilla"]

Languages ==
    [n \in {AllNewsletterIds[i] : i \in 1..4} |->
        CASE n = AllNewsletterIds[1] -> <<"en", "fr">>
          [] n = AllNewsletterIds[2] -> <<"en-US">>
          [] n = AllNewsletterIds[3] -> <<"fr">>
          [] n = AllNewsletterIds[4] -> <<"en-GB", "en-US">>]

OrderValues == {1, 2}

\* the catalog entry of newsletter n with the optional keys in `optional`
Descriptor(n, optional, show, order) ==
    [k \in {"title", "description", "languages"} \cup optional |->
        CASE k = "title" -> Titles[n]
          [] k = "description" -> "About " \o Titles[n]
          [] k = "languages" -> Languages[n]
          [] k = "show" -> show
          [] k = "order" -> order]

Descriptors(n) ==
    {Descriptor(n, optional, show, order) :
        optional \in SUBSET {"show", "order"}, show \in BOOLEAN,
        order \in OrderValues}

\* every catalog over the newsletter ids: each entry with or without 'show'
\* and 'order'
Catalogs ==
    UNION {{c \in [D -> UNION {Descriptors(n) : n \in D}] :
               \A n \in D : c[n] \in Descriptors(n)} : D \in SUBSET NewsletterIds}

NoCatalog == <<>>

\* index of newsletter n in AllNewsletterIds
IdIndex(n) == CHOOSE i \in 1..4 : AllNewsletterIds[i] = n

\* the catalog the requests of Spec are served with: every newsletter is
\* shown and has an order
DefaultCatalog ==
    [n \in NewsletterIds |-> Descriptor(n, {"show", "order"}, TRUE, IdIndex(n))]

DefaultIteritems == [i \in 1..NumNewsletters |-> AllNewsletterIds[i]]

ExistingEnv(user_out, user, order, update_out, unsub_out) ==
    [user |-> user_out, user_record |-> user, order |-> order,
     update_user |-> update_out, unsubscribe |-> unsub_out,
     newsletter_data |-> DefaultCatalog, iteritems |-> DefaultIteritems]

CatalogEnv(catalog, iteritems, user, order) ==
    [ExistingEnv(Returned("ok"), user, order, Returned("ok"), Returned("ok"))
        EXCEPT !.newsletter_data = catalog, !.iteritems = iteritems]

\* the requests the catalogs are tried with: a GET, a POST that validates and
\* a POST that does not
CatalogRequests ==
    {[method |-> "GET", token |-> KnownToken, POST |-> NoPost]}
    \cup {[method |-> "POST", token |-> KnownToken, POST |-> p] :
             p \in {q \in ExistingPosts :
                       /\ q.form_ok /\ ~q.remove_all
                       /\ q.lang = "en" /\ q.format = "H" /\ q.country = "us"
                       /\ \A n \in NewsletterIds : q.subforms[n]}}

\* the outcomes for `name`, when the handler reaches that call under env
OutcomesIfReached(name, req, token, env, outcomes) ==
    IF name \in CallNames(existing(req, token, env)) THEN outcomes ELSE {NotCalled}

UpdatedTokens == {NoToken, TokenA, TokenShort}

UnsubParams == {"0", "1", "2", "02", "x"}

FreeTexts == {"", "spam"}

ReasonIndexes == 0..(Len(REASONS) - 1)

\* marks a parameter the request does not carry
Absent == "<absent>"

\* request.REQUEST of the landing page: a dict holding the submitted keys
UpdatedREQUEST(unsub, token, checked, text_p, text) ==
    LET keys == (IF unsub # Absent THEN {"unsub"} ELSE {})
                \cup (IF Truthy(token) THEN {"token"} ELSE {})
                \cup {reason_key(i) : i \in checked}
                \cup (IF text_p THEN {"reason-text-p"} ELSE {})
                \cup (IF text # Absent THEN {"reason-text"} ELSE {})
    IN  [k \in keys |->
            CASE k = "unsub" -> unsub
              [] k = "token" -> token
              [] k = "reason-text" -> text
              [] OTHER -> "on"]

SampleChecked == {{}, {0, 3}}

\* every set of checked reasons for a POST that submits reasons with the
\* known token, two sample sets for the other requests
CheckedSets(method, unsub, token) ==
    IF method = "POST" /\ unsub = "2" /\ token = KnownToken
    THEN SUBSET ReasonIndexes ELSE SampleChecked

SignupPosts ==
    [form_ok : BOOLEAN, email : {UserEmail}, newsletter : {AllNewsletterIds[1]},
     fmt : Formats, country : {"", "us"}, lang : {"", "fr"},
     source_url : {"", "https://www.mozilla.org/"}]

RecoveryPosts == [form_ok : BOOLEAN, email : {UserEmail, "x@example.com"}]

(***************************************************************************)
(* The state machine: one handler per request                              *)
(***************************************************************************)
Init ==
    /\ basket_user = InitialUser
    /\ fetched_user = NoUser
    /\ phase = "idle"
    /\ view = "none"
    /\ request = NoRequest
    /\ calls = <<>>
    /\ response = [kind |-> "none"]
    /\ messages = <<>>
    /\ log = <<>>
    /\ newsletter_data = NoCatalog
    /\ initial = <<>>

\* the handler `v` served `req` and left `r`; the successful writes among its
\* calls have changed the remote user record
Handle(v, req, r) ==
    /\ phase' = "handled"
    /\ view' = v
    /\ request' = req
    /\ calls' = r.calls
    /\ response' = r.response
    /\ messages' = r.messages
    /\ log' = r.log
    /\ newsletter_data' = IF "newsletter_data" \in DOMAIN r
                          THEN r.newsletter_data ELSE NoCatalog
    /\ initial' = IF "initial" \in DOMAIN r THEN r.initial ELSE <<>>
    /\ fetched_user' = IF Fetched(r.calls) THEN basket_user ELSE NoUser
    /\ basket_user' = basket_after(basket_user, r.calls)

Confirm ==
    /\ phase = "idle"
    /\ \E token \in Tokens \ {NoToken}, outcome \in ConfirmOutcomes :
               Handle("confirm", [method |-> "GET", token |-> token],
                      confirm(token, outcome))

Existing ==
    /\ phase = "idle"
    /\ \E token \in Tokens :
             \E req \in ExistingRequests(token) :
               \E order \in (IF req.method = "POST"
                             THEN Orders(checked_newsletters(req.POST)) ELSE {<<>>}) :
                 LET ok == Returned("ok")
                     env0 == ExistingEnv(ok, basket_user, order, ok, ok)
                 IN  \E u \in OutcomesIfReached("user", req, token, env0,
                                                UserOutcomes(token)) :
                       LET env1 == ExistingEnv(u, basket_user, order, ok, ok)
                       IN  \E w \in OutcomesIfReached("update_user", req, token, env1,
                                                      WriteOutcomes) :
                             LET env2 == ExistingEnv(u, basket_user, order, w, ok)
                             IN  \E x \in OutcomesIfReached("unsubscribe", req, token,
                                                            env2, UnsubscribeOutcomes) :
                                   Handle("existing", req,
                                          existing(req, token,
                                                   ExistingEnv(u, basket_user, order, w, x)))

Updated ==
    /\ phase = "idle"
    /\ \E method \in Methods, unsub \in UnsubParams \cup {Absent},
              token \in UpdatedTokens, text_p \in BOOLEAN,
              text \in FreeTexts \cup {Absent} :
             \E checked \in CheckedSets(method, unsub, token) :
               LET req == [method |-> method,
                           REQUEST |-> UpdatedREQUEST(unsub, token, checked, text_p, text)]
               IN  \E outcome \in (IF sends_reasons(req)
                                   THEN {Returned("ok"), Raised("BasketException", 500)}
                                   ELSE {NotCalled}) :
                     Handle("updated", req, updated(req, outcome))

OneNewsletterSignup ==
    /\ phase = "idle"
    /\ \E method \in Methods :
             \E POST \in (IF method = "POST" THEN SignupPosts ELSE {NoPost}) :
               LET req == [method |-> method, POST |-> POST]
               IN  \E outcome \in (IF NewsletterFooterForm_is_valid(req)
                                   THEN WriteOutcomes ELSE {NotCalled}) :
                     Handle("one_newsletter_signup", req,
                            one_newsletter_signup(req, "newsletter/mozilla-and-you.html",
                                                  outcome))

Recovery ==
    /\ phase = "idle"
    /\ \E method \in Methods :
             \E POST \in (IF method = "POST" THEN RecoveryPosts ELSE {NoPost}),
                GET \in (IF method = "GET" THEN {NoPost, [success |-> ""]} ELSE {NoPost}) :
               LET req == [method |-> method, path |-> "/newsletter/recovery/",
                           POST |-> POST, GET |-> GET]
               IN  \E outcome \in (IF method = "POST" /\ EmailForm_is_valid(POST)
                                   THEN {Returned("ok")} \cup Failures ELSE {NotCalled}) :
                     Handle("recovery", req, recovery(req, outcome))

\* the response goes out and the objects of the request are dropped
Respond ==
    /\ phase = "handled"
    /\ phase' = "idle"
    /\ view' = "none"
    /\ request' = NoRequest
    /\ calls' = <<>>
    /\ response' = [kind |-> "none"]
    /\ messages' = <<>>
    /\ log' = <<>>
    /\ newsletter_data' = NoCatalog
    /\ initial' = <<>>
    /\ fetched_user' = NoUser
    /\ UNCHANGED basket_user

Next ==
    \/ Updated
    \/ Existing
    \/ Confirm
    \/ OneNewsletterSignup
    \/ Recovery
    \/ Respond

Spec == Init /\ [][Next]_vars

(***************************************************************************)
(* The manage-subscriptions page over every catalog: the user record       *)
(* starts with any set of subscriptions, and each request is served with   *)
(* any catalog, iterated in any order                                      *)
(***************************************************************************)
InitCatalog ==
    /\ basket_user \in {[InitialUser EXCEPT !.newsletters = S] :
                            S \in SUBSET NewsletterIds}
    /\ fetched_user = NoUser
    /\ phase = "idle"
    /\ view = "none"
    /\ request = NoRequest
    /\ calls = <<>>
    /\ response = [kind |-> "none"]
    /\ messages = <<>>
    /\ log = <<>>
    /\ newsletter_data = NoCatalog
    /\ initial = <<>>

ExistingCatalog ==
    /\ phase = "idle"
    /\ \E catalog \in Catalogs :
         \E iteritems \in Orders(DOMAIN catalog), req \in CatalogRequests :
           \E order \in (IF req.method = "POST"
                         THEN Orders(checked_newsletters(req.POST)) ELSE {<<>>}) :
             Handle("existing", req,
                    existing(req, req.token,
                             CatalogEnv(catalog, iteritems, basket_user, order)))

NextCatalog ==
    \/ ExistingCatalog
    \/ Respond

SpecCatalog == InitCatalog /\ [][NextCatalog]_vars

(***************************************************************************)
(* Vocabulary of the properties                                            *)
(***************************************************************************)
Handled(v) == phase = "handled" /\ view = v

CallsNamed(name) == {i \in DOMAIN calls : calls[i].name = name}

WriteCalls == CallsNamed("update_user") \cup CallsNamed("unsubscribe")

Succeeded(i) == calls[i].outcome.exc = "None"

ProfileFields == {"lang", "format", "country"}

\* a POST to the manage-subscriptions page whose user record was fetched
ExistingPostWithUser ==
    /\ Handled("existing")
    /\ request.method = "POST"
    /\ Fetched(calls)

\* the profile fields whose submitted value differs from the fetched record
ChangedFields == {k \in ProfileFields : request.POST[k] # fetched_user[k]}

RemoveAllPost ==
    /\ ExistingPostWithUser
    /\ request.POST.form_ok
    /\ request.POST.remove_all

ValidUpdatePost ==
    /\ ExistingPostWithUser
    /\ request.POST.form_ok
    /\ request.POST.formset_ok
    /\ ~request.POST.remove_all

RedirectsToRecovery ==
    response.kind = "redirect" /\ response.to = reverse("newsletter.recovery")

HasMessage(text) == \E i \in DOMAIN messages : messages[i].text = text

SameAsFetched ==
    /\ ChangedFields = {}
    /\ checked_newsletters(request.POST) = fetched_user.newsletters

C2_NoWriteWhenUnchanged ==
    (ValidUpdatePost /\ SameAsFetched) => WriteCalls = {}

(***************************************************************************)
(* C2 (amended): such a POST makes exactly one remote write, an            *)
(* update_user whose payload holds the newsletters key alone, denoting the *)
(* checked set, and no lang, format or country; unsubscribe is not called. *)
(* This is so too when the record is the result of an earlier update.      *)
(***************************************************************************)
C2_UnchangedSendsNewsletters ==
    (ValidUpdatePost /\ SameAsFetched) =>
        /\ Cardinality(CallsNamed("update_user")) = 1
        /\ CallsNamed("unsubscribe") = {}
        /\ \A i \in CallsNamed("update_user") :
              /\ DOMAIN calls[i].args[2] = {"newsletters"}
              /\ split_newsletters(calls[i].args[2]["newsletters"])
                    = fetched_user.newsletters

\* lang "fr" is in the record only after a successful update (InitialUser
\* has "en"): a resubmission of updated values
C2_Witness ==
    /\ ValidUpdatePost
    /\ SameAsFetched
    /\ fetched_user.lang = "fr"
    /\ fetched_user.newsletters = NewsletterIds
    /\ CallsNamed("update_user") # {}

(***************************************************************************)
(* C3 (as claimed): a valid POST without remove_all that changes exactly   *)
(* one of lang/format/country passes update_user a payload holding that    *)
(* one field and no other key.                                             *)
(***************************************************************************)
C3_PayloadIsTheOneField ==
    (ValidUpdatePost /\ Cardinality(ChangedFields) = 1) =>
        \A i \in CallsNamed("update_user") :
            DOMAIN calls[i].args[2] = ChangedFields

(***************************************************************************)
(* C3 (amended): the payload holds that one field, with the submitted      *)
(* value, and the newsletters key, and no other key.                       *)
(***************************************************************************)
C3_PayloadIsFieldAndNewsletters ==
    (ValidUpdatePost /\ Cardinality(ChangedFields) = 1) =>
        /\ Cardinality(CallsNamed("update_user")) = 1
        /\ \A i \in CallsNamed("update_user") :
              /\ DOMAIN calls[i].args[2] = ChangedFields \cup {"newsletters"}
              /\ \A k \in ChangedFields : calls[i].args[2][k] = request.POST[k]

C3_Witness ==
    /\ ValidUpdatePost
    /\ ChangedFields = {"country"}
    /\ \E i \in CallsNamed("update_user") :
          calls[i].args[2]["country"] = request.POST.country

(***************************************************************************)
(* C4 (as claimed): for every token that is not of the UUID shape (32      *)
(* hexadecimal digits grouped 8-4-4-4-12, the whole string; an absent      *)
(* token too), on GET and on POST, the manage-subscriptions handler        *)
(* redirects to the recovery page and makes no remote call.                *)
(***************************************************************************)
C4_BadTokenNoRemoteCall ==
    (Handled("existing") /\ ~UUID_BODY_match(request.token)) =>
        /\ RedirectsToRecovery
        /\ calls = <<>>

(***************************************************************************)
(* C5 (as claimed): an absent token, a token that is not of the UUID       *)
(* shape and a well-formed token that basket.user rejects all end with the *)
(* bad_token message added and a redirect to the recovery page.            *)
(***************************************************************************)
UserRejected ==
    \E i \in CallsNamed("user") :
        /\ IsBasketException(calls[i].outcome)
        /\ ~IsBasketNetworkException(calls[i].outcome)

C5_SameOutcomeForAllThree ==
    (/\ Handled("existing")
     /\ \/ ~Truthy(request.token)
        \/ ~UUID_BODY_match(request.token)
        \/ UserRejected)
    => (HasMessage(bad_token) /\ RedirectsToRecovery)

(***************************************************************************)
(* C6 (as claimed): every call of basket.confirm, basket.user,             *)
(* basket.update_user, basket.unsubscribe and custom_unsub_reason, in      *)
(* every handler, carries a token of valid UUID shape.                     *)
(***************************************************************************)
TokenCalls == {"confirm", "user", "update_user", "unsubscribe",
               "custom_unsub_reason"}

C6_OnlyWellFormedTokensSent ==
    \A i \in DOMAIN calls :
        calls[i].name \in TokenCalls => UUID_REGEX_match(calls[i].args[1])

(***************************************************************************)
(* C7 (as claimed): a request makes at most two remote calls, at most one  *)
(* read and at most one write, no remote method twice, and in the          *)
(* manage-subscriptions handler a write is issued only after basket.user   *)
(* has returned successfully in the same request.                          *)
(***************************************************************************)
ReadCalls == CallsNamed("user")

NonReadCalls == DOMAIN calls \ ReadCalls

NoMethodTwice ==
    \A i, j \in DOMAIN calls : calls[i].name = calls[j].name => i = j

WritesFollowTheRead ==
    Handled("existing") =>
        \A j \in WriteCalls : \E i \in ReadCalls : i < j /\ Succeeded(i)

OnlyFlag(context, flag) ==
    \A f \in {"success", "token_error", "generic_error"} : context[f] <=> (f = flag)

C8_ConfirmOutcome ==
    Handled("confirm") =>
        /\ Len(calls) = 1
        /\ calls[1].name = "confirm"
        /\ calls[1].args = <<request.token>>
        /\ response.kind = "render"
        /\ LET outcome == calls[1].outcome
               context == response.context
           IN  /\ (outcome.exc # "None" /\ outcome.status_code = 403)
                     => OnlyFlag(context, "token_error")
               /\ (outcome.exc # "None" /\ outcome.status_code # 403)
                     => OnlyFlag(context, "generic_error")
               /\ (outcome.exc = "None" /\ outcome.status = "ok")
                     => OnlyFlag(context, "success")
               /\ (outcome.exc = "None" /\ outcome.status # "ok")
                     => OnlyFlag(context, "generic_error")

C8_Witness ==
    /\ Handled("confirm")
    /\ request.token = TokenA
    /\ calls[1].outcome = Raised("BasketException", 403)
    /\ response.context.token_error
    /\ ~response.context.success
    /\ ~response.context.generic_error

(***************************************************************************)
(* C9: in recovery, a POST with a valid email form calls                   *)
(* send_recovery_message(email) exactly once: a rejection with status code *)
(* 404 re-renders the form with the 'not in our system' message and its    *)
(* subscribe link and without the generic error; a rejection with any      *)
(* other code re-renders the form with the generic error only; success     *)
(* adds the success message and redirects to the same path with            *)
(* '?success'.  A GET, and a POST with an invalid form, make no remote     *)
(* call.                                                                   *)
(***************************************************************************)
C9_RecoveryOutcome ==
    Handled("recovery") =>
        IF request.method = "POST" /\ request.POST.form_ok
        THEN /\ Len(calls) = 1
             /\ calls[1].name = "send_recovery_message"
             /\ calls[1].args = <<request.POST.email>>
             /\ LET outcome == calls[1].outcome
                IN  /\ (outcome.exc # "None" /\ outcome.status_code = 404) =>
                          /\ response.kind = "render"
                          /\ response.context.form = "EmailForm"
                          /\ response.context.errors =
                                {[field |-> "email", text |-> unknown_address_text,
                                  link |-> "newsletter.mozilla-and-you"]}
                          /\ messages = <<>>
                    /\ (outcome.exc # "None" /\ outcome.status_code # 404) =>
                          /\ response.kind = "render"
                          /\ response.context.form = "EmailForm"
                          /\ response.context.errors =
                                {[field |-> "__all__", text |-> general_error,
                                  link |-> ""]}
                          /\ messages = <<>>
                    /\ outcome.exc = "None" =>
                          /\ response.kind = "redirect"
                          /\ response.to = request.path
                          /\ DOMAIN response.query = {"success"}
                          /\ messages = <<Message("INFO", recovery_text)>>
        ELSE calls = <<>>

C9_Witness ==
    /\ Handled("recovery")
    /\ request.method = "POST"
    /\ request.POST.email = "x@example.com"
    /\ Len(calls) = 1
    /\ calls[1].outcome = Raised("BasketException", 404)
    /\ \E e \in response.context.errors : e.text = unknown_address_text

(***************************************************************************)
(* C10 (as claimed): updated invokes custom_unsub_reason exactly once when *)
(* the request is a POST with unsub=2 and a non-empty token, and in no     *)
(* other request; its text is the checked predefined reasons in ascending  *)
(* index order, followed by the submitted free text when free text was     *)
(* submitted, each item followed by "\n\n".                                *)
(***************************************************************************)
CheckedReasons == {i \in ReasonIndexes : reason_key(i) \in DOMAIN request.REQUEST}

RECURSIVE AscendingTexts(_)
AscendingTexts(S) ==
    IF S = {} THEN <<>>
    ELSE LET m == CHOOSE i \in S : \A j \in S : i <= j
         IN  <<REASONS[m + 1]>> \o AscendingTexts(S \ {m})

RECURSIVE EachFollowedBySeparator(_)
EachFollowedBySeparator(items) ==
    IF Len(items) = 0 THEN ""
    ELSE items[1] \o "\n\n" \o EachFollowedBySeparator(Tail(items))

SubmitsReasons ==
    /\ request.method = "POST"
    /\ "unsub" \in DOMAIN request.REQUEST
    /\ request.REQUEST["unsub"] \in {"2", "02"}
    /\ "token" \in DOMAIN request.REQUEST
    /\ request.REQUEST["token"] # <<>>

InvokedOnceIffReasonsSubmitted ==
    Cardinality(CallsNamed("custom_unsub_reason")) = (IF SubmitsReasons THEN 1 ELSE 0)

FreeTextSubmitted ==
    /\ "reason-text" \in DOMAIN request.REQUEST
    /\ request.REQUEST["reason-text"] # ""

C10_EachItemFollowedBySeparator ==
    Handled("updated") =>
        /\ InvokedOnceIffReasonsSubmitted
        /\ LET items == AscendingTexts(CheckedReasons)
                        \o (IF FreeTextSubmitted
                            THEN <<request.REQUEST["reason-text"]>> ELSE <<>>)
           IN  \A i \in CallsNamed("custom_unsub_reason") :
                   calls[i].args = <<request.REQUEST["token"],
                                     EachFollowedBySeparator(items)>>

(***************************************************************************)
(* C10 (amended): updated invokes custom_unsub_reason exactly once when    *)
(* the request is a POST with unsub=2 and a non-empty token, and in no     *)
(* other request.  The items of its text are the checked predefined        *)
(* reasons in ascending index order, followed, exactly when the            *)
(* reason-text-p parameter is present, by the value of reason-text (the    *)
(* empty string when it is absent).  The text is each item followed by     *)
(* "\n\n", and is "\n\n" when there is no item.                            *)
(***************************************************************************)
C10_ReasonText ==
    Handled("updated") =>
        /\ InvokedOnceIffReasonsSubmitted
        /\ LET free == IF "reason-text" \in DOMAIN request.REQUEST
                       THEN request.REQUEST["reason-text"] ELSE ""
               items == AscendingTexts(CheckedReasons)
                        \o (IF "reason-text-p" \in DOMAIN request.REQUEST
                            THEN <<free>> ELSE <<>>)
           IN  \A i \in CallsNamed("custom_unsub_reason") :
                   calls[i].args =
                      <<request.REQUEST["token"],
                        IF Len(items) = 0 THEN "\n\n"
                        ELSE EachFollowedBySeparator(items)>>

\* the scenario of the claim: indices {0,3} and free text 'spam'
C10_Witness ==
    /\ Handled("updated")
    /\ SubmitsReasons
    /\ CheckedReasons = {0, 3}
    /\ "reason-text-p" \in DOMAIN request.REQUEST
    /\ FreeTextSubmitted
    /\ calls[1].args[2] =
          "You send too many emails.\n\nI didn't sign up for this.\n\nspam\n\n"

(***************************************************************************)
(* C11: whenever existing has fetched the user record, for every catalog   *)
(* and every record, the list `initial` has an entry for a newsletter of   *)
(* the catalog exactly when the catalog entry has show true or the user is *)
(* subscribed to it; it has at most one entry per newsletter, no entry for *)
(* anything else, and the 'subscribed' flag of an entry is true exactly    *)
(* when the user is subscribed to that newsletter.                         *)
(***************************************************************************)
EntriesFor(n) == {i \in DOMAIN initial : initial[i].newsletter = n}

ShowIsTrue(n) ==
    "show" \in DOMAIN newsletter_data[n] /\ newsletter_data[n].show

C11_DisplayListMembership ==
    (Handled("existing") /\ Fetched(calls)) =>
        /\ \A n \in DOMAIN newsletter_data :
              /\ Cardinality(EntriesFor(n)) =
                    IF ShowIsTrue(n) \/ n \in fetched_user.newsletters
                    THEN 1 ELSE 0
              /\ \A i \in EntriesFor(n) :
                    initial[i].subscribed = (n \in fetched_user.newsletters)
        /\ \A i \in DOMAIN initial : initial[i].newsletter \in DOMAIN newsletter_data

\* a newsletter listed only because the user is subscribed to it, next to
\* one listed only because the catalog shows it
C11_Witness ==
    /\ Handled("existing")
    /\ Fetched(calls)
    /\ \E n, m \in DOMAIN newsletter_data :
          /\ ~ShowIsTrue(n) /\ n \in fetched_user.newsletters
          /\ EntriesFor(n) # {}
          /\ ShowIsTrue(m) /\ m \notin fetched_user.newsletters
          /\ \E i \in EntriesFor(m) : ~initial[i].subscribed

(***************************************************************************)
(* C12 (as claimed): whenever existing has fetched the user record, the    *)
(* handler gives its normal response (no exception leaves it), and the     *)
(* list `initial` is in ascending 'order' when any of its entries has      *)
(* 'order', in ascending title otherwise; also for catalogs where only     *)
(* some of the shown entries have 'order'.                                 *)
(***************************************************************************)
AnyHasOrder == \E i \in DOMAIN initial : "order" \in DOMAIN initial[i]

AscendingByOrder ==
    /\ \A i \in DOMAIN initial : "order" \in DOMAIN initial[i]
    /\ \A i, j \in DOMAIN initial : i < j => initial[i].order <= initial[j].order

AscendingByTitle ==
    \A i, j \in DOMAIN initial : i < j => ~str_lt(initial[j].title, initial[i].title)

C12_SortedByOrderIfAnyHasOrder ==
    (Handled("existing") /\ Fetched(calls)) =>
        /\ response.kind # "exception"
        /\ IF AnyHasOrder THEN AscendingByOrder ELSE AscendingByTitle

(***************************************************************************)
(* C13: when basket.user fails with a network-level error in existing, on  *)
(* a GET as on a POST, the handler adds the generic error message and no   *)
(* other (so not the bad-token message), renders the management page       *)
(* instead of redirecting, and makes no further remote call.               *)
(***************************************************************************)
UserFetchTimedOut ==
    \E i \in CallsNamed("user") : IsBasketNetworkException(calls[i].outcome)

C13_NetworkFailureOnFetch ==
    (Handled("existing") /\ UserFetchTimedOut) =>
        /\ messages = <<Message("ERROR", general_error)>>
        /\ ~HasMessage(bad_token)
        /\ response.kind = "render"
        /\ response.template = "newsletter/existing.html"
        /\ Len(calls) = 1

\* a POST that would have changed the record, had the fetch not timed out
C13_Witness ==
    /\ Handled("existing")
    /\ UserFetchTimedOut
    /\ request.method = "POST"
    /\ request.POST.form_ok /\ request.POST.formset_ok
    /\ request.POST.lang # basket_user.lang
    /\ response.kind = "render"
    /\ HasMessage(general_error)

(***************************************************************************)
(* C14: a POST to existing that passed validation and whose remote writes  *)
(* all succeeded ends in a redirect to the landing page; with remove_all   *)
(* the URL carries unsub=1 and token=<the request's token>, without        *)
(* remove_all it carries neither parameter.  existing redirects to the     *)
(* landing page only when every remote write of the request succeeded.     *)
(***************************************************************************)
RedirectsToLanding ==
    response.kind = "redirect" /\ response.to = reverse("newsletter.updated")

PassedValidation ==
    /\ ExistingPostWithUser
    /\ request.POST.form_ok
    /\ request.POST.remove_all \/ request.POST.formset_ok

AllWritesSucceeded == \A i \in WriteCalls : Succeeded(i)

C14_SuccessfulPostRedirects ==
    /\ (PassedValidation /\ AllWritesSucceeded) =>
          /\ RedirectsToLanding
          /\ IF request.POST.remove_all
             THEN /\ DOMAIN response.query = {"unsub", "token"}
                  /\ response.query.unsub = 1
                  /\ response.query.token = request.token
             ELSE DOMAIN response.query = {}
    /\ (Handled("existing") /\ RedirectsToLanding) =>
          /\ PassedValidation
          /\ AllWritesSucceeded

\* remove_all together with a changed language: both writes succeeded
C14_Witness ==
    /\ RemoveAllPost
    /\ Cardinality(WriteCalls) = 2
    /\ AllWritesSucceeded
    /\ RedirectsToLanding
    /\ response.query.token = request.token

(***************************************************************************)
(* C15 (as claimed): in every handler, when a call of confirm, user,       *)
(* update_user, unsubscribe, subscribe or send_recovery_message raises     *)
(* (the 404 of recovery included) or confirm returns a status other than   *)
(* ok, a log entry has been written when the response is produced.         *)
(***************************************************************************)
LoggedCallNames ==
    {"confirm", "user", "update_user", "unsubscribe", "subscribe",
     "send_recovery_message"}

RaisedCalls ==
    {i \in DOMAIN calls :
        calls[i].name \in LoggedCallNames /\ calls[i].outcome.exc # "None"}

ConfirmReturnedNotOk ==
    \E i \in CallsNamed("confirm") :
        calls[i].outcome.exc = "None" /\ calls[i].outcome.status # "ok"

UnknownAddress(i) ==
    calls[i].name = "send_recovery_message" /\ calls[i].outcome.status_code = 404

SignupFormValid == request.method = "POST" /\ request.POST.form_ok

C16_SignupOutcome ==
    Handled("one_newsletter_signup") =>
        /\ Len(calls) = IF SignupFormValid THEN 1 ELSE 0
        /\ \A i \in DOMAIN calls : calls[i].name = "subscribe"
        /\ response.kind = "render"
        /\ response.context.newsletter_success =
              \E i \in CallsNamed("subscribe") : Succeeded(i)
        /\ (\E i \in CallsNamed("subscribe") : ~Succeeded(i)) =>
              /\ response.context.form_errors =
                    {[field |-> "__all__", text |-> general_error]}
              /\ ~response.context.newsletter_success

\* the service refused the subscription of a valid form
C16_Witness ==
    /\ Handled("one_newsletter_signup")
    /\ SignupFormValid
    /\ \E i \in CallsNamed("subscribe") : ~Succeeded(i)
    /\ response.kind = "render"
    /\ ~response.context.newsletter_success

(***************************************************************************)
(* C17 (as claimed): when a remote write of existing fails, the handler    *)
(* renders the management page with the generic error, does not redirect   *)
(* and makes no further write; and in every request to existing that ends  *)
(* with the generic error, no remote write of that request has succeeded.  *)
(***************************************************************************)
FailedWrites == {i \in WriteCalls : ~Succeeded(i)}

RendersGenericError ==
    /\ response.kind = "render"
    /\ response.template = "newsletter/existing.html"
    /\ messages = <<Message("ERROR", general_error)>>

AbortsAtFailedWrite ==
    FailedWrites # {} =>
        /\ RendersGenericError
        /\ \A i \in FailedWrites : i = Len(calls)

FailsValidation ==
    /\ ExistingPostWithUser
    /\ \/ ~request.POST.form_ok
       \/ ~request.POST.remove_all /\ ~request.POST.formset_ok

C18_InvalidPostHasNoEffect ==
    FailsValidation =>
        /\ WriteCalls = {}
        /\ log = <<>>
        /\ basket_user = fetched_user
        /\ response.kind = "render"
        /\ response.template = "newsletter/existing.html"

\* an invalid form that asks for remove_all and a new language
C18_Witness ==
    /\ FailsValidation
    /\ ~request.POST.form_ok
    /\ request.POST.remove_all
    /\ request.POST.lang # fetched_user.lang
    /\ response.kind = "render"

(***************************************************************************)
(* C19: in a valid POST to existing without remove_all, every update_user  *)
(* call carries a newsletters value, and that value is the comma-joined    *)
(* list, in some order, of exactly the newsletter ids whose sub-form was   *)
(* submitted with 'subscribed' checked: every checked id, no unchecked id, *)
(* whatever the user was subscribed to before.                             *)
(***************************************************************************)
CheckedInRequest == {n \in DOMAIN request.POST.subforms : request.POST.subforms[n]}

C19_NewslettersIsTheCheckedSet ==
    ValidUpdatePost =>
        \A i \in CallsNamed("update_user") :
            /\ "newsletters" \in DOMAIN calls[i].args[2]
            /\ \E o \in Orders(CheckedInRequest) :
                  calls[i].args[2].newsletters = join(",", o)

\* the user keeps one subscription and adds another: both ids are sent
C19_Witness ==
    /\ ValidUpdatePost
    /\ fetched_user.newsletters # {}
    /\ fetched_user.newsletters # CheckedInRequest
    /\ fetched_user.newsletters \subseteq CheckedInRequest
    /\ \E i \in CallsNamed("update_user") :
          /\ Succeeded(i)
          /\ basket_user.newsletters = CheckedInRequest

(***************************************************************************)
(* C20 (as claimed): the shape check of existing accepts a token exactly   *)
(* when the whole string is 32 hexadecimal digits, of either case, grouped *)
(* 8-4-4-4-12 with single hyphens; a string with any further character,    *)
(* a trailing newline included, is rejected: it is answered with the       *)
(* bad-token redirect and no remote call is made for it.                   *)
(***************************************************************************)
C20_AcceptsOnlyCanonicalTokens ==
    (Handled("existing") /\ Truthy(request.token)) =>
        /\ (calls # <<>>) <=> UUID_BODY_match(request.token)
        /\ ~UUID_BODY_match(request.token) =>
              /\ RedirectsToRecovery
              /\ HasMessage(bad_token)
              /\ log = <<>>

====
